---------------------------- MODULE Spec2Model ----------------------------
(***************************************************************************)
(* A model of pcbpack.py (gctools): the rectangle entity BoardPosition,    *)
(* the rotation enumerator rotations(), the panel layout engine            *)
(* (Panel.willFit, Panel.findPosition, Panel.consumed, Panel.layout) and   *)
(* the Excellon drill decoder loadDrillFile.                               *)
(*                                                                         *)
(* Lengths are whole millimetres (integers); findPosition only ever tries  *)
(* whole positions.  Python's None is the empty set and a present value v  *)
(* is the singleton {v}.  The source is Python 2 (`<>`, has_key,           *)
(* sorted(cmp = ...), `except Exception, ex`) and its classes are classic  *)
(* classes (`class BoardPosition:`, `class Panel:`), which decides what an *)
(* attribute assignment does: it stores into the instance __dict__, never  *)
(* calls a property's setter, and an instance attribute shadows a method   *)
(* or property of the same name.                                           *)
(*                                                                         *)
(* Four specifications share the variables: SpecLayout (Panel.layout and   *)
(* rotations), SpecBoard (one BoardPosition and its clone), SpecFit        *)
(* (Panel.willFit) and SpecDrill (loadDrillFile).  The variables of the    *)
(* other parts keep their idle values.                                     *)
(***************************************************************************)
EXTENDS Integers, Sequences, FiniteSets, TLC

VARIABLES
  \* --- the layout engine (Panel, rotations) ---
  panel,       \* the Panel: [w, h, padding, locked]
  selfLayout,  \* the instance attribute Panel.layout: None while only the method exists
  boards,      \* the arguments of the running / last call of Panel.layout
  pc,          \* where the call of Panel.layout is
  yielded,     \* how many candidates rotations(boards) has yielded in this call
  candidate,   \* the candidate last yielded, as the placement loop left it
  current,     \* the list `current` of the last candidate tried
  placed,      \* the flag `placed` of the last candidate tried
  best,        \* the local `best` of Panel.layout
  rets,        \* what each finished call of Panel.layout gave its caller
  \* --- one BoardPosition and its clone ---
  board,       \* a BoardPosition
  copy,        \* the result of board.clone(), None before the call
  op,          \* the last operation applied
  raised,      \* whether the last operation raised an exception
  fits,        \* the last result of Panel.willFit(board)
  nops,        \* the number of operations applied so far
  \* --- the drill decoder (loadDrillFile) ---
  drill        \* the locals of loadDrillFile and the lines read so far

layoutVars == <<panel, selfLayout, boards, pc, yielded, candidate, current, placed, best, rets>>
boardVars == <<board, copy, op, raised, fits, nops>>
vars == <<layoutVars, boardVars, drill>>

(***************************************************************************)
(* Bounds of the model.                                                    *)
(***************************************************************************)
MaxPanel == 5     \* panels are MaxPanel-1 .. MaxPanel wide and MaxPanel high
MaxDim == 2       \* boards are 1 .. MaxDim wide and high
MaxBoards == 2    \* at most this many boards in one call of layout
MaxLocked == 1    \* at most this many locked zones on a panel
MaxCalls == 2     \* at most this many calls of layout on one Panel
MaxPos == 1       \* a BoardPosition is moved to 0 .. MaxPos on each axis
MaxOps == 3       \* operations applied to one BoardPosition
MaxPadding == 1   \* panel padding 0 .. MaxPadding in the willFit check
MaxLines == 5     \* a drill file holds at most this many lines

None == {}
Some(v) == {v}
Val(o) == CHOOSE v \in o : TRUE

Max(a, b) == IF a >= b THEN a ELSE b

RECURSIVE Pow2(_)
Pow2(n) == IF n = 0 THEN 1 ELSE 2 * Pow2(n - 1)

RECURSIVE SeqsUpTo(_, _)
\* all sequences over S of length 0 .. n
SeqsUpTo(S, n) ==
  IF n = 0 THEN {<<>>}
  ELSE LET shorter == SeqsUpTo(S, n - 1)
       IN shorter \cup {Append(s, e) : s \in {t \in shorter : Len(t) = n - 1}, e \in S}

(***************************************************************************)
(* BoardPosition.                                                          *)
(* width, height are the private _width, _height; attrs is the part of the *)
(* instance __dict__ that can shadow the class properties w and h.         *)
(***************************************************************************)
NoAttrs == [k \in {} |-> 0]

\* BoardPosition.__init__ followed by reset()
NewBoard(name, w, h) ==
  [name |-> name, width |-> w, height |-> h, x |-> 0, y |-> 0,
   rotated |-> FALSE, attrs |-> NoAttrs]

\* reading b.w: an instance attribute shadows the property of a classic class
W(b) ==
  IF "w" \in DOMAIN b.attrs THEN b.attrs["w"]
  ELSE IF b.rotated THEN b.height ELSE b.width

\* reading b.h
H(b) ==
  IF "h" \in DOMAIN b.attrs THEN b.attrs["h"]
  ELSE IF b.rotated THEN b.width ELSE b.height

\* b.reset()
Reset(b) == [b EXCEPT !.x = 0, !.y = 0, !.rotated = FALSE]

\* `b.w = value` / `b.h = value` on an instance of a classic class: the
\* property's setter is never called, the value lands in the instance __dict__
SetAttr(b, attr, value) ==
  [b EXCEPT !.attrs = [k \in (DOMAIN b.attrs) \cup {attr} |->
                          IF k = attr THEN value ELSE b.attrs[k]]]

Overlaps(a, b) ==
  ~ (   (a.x + W(a) <= b.x)
     \/ (b.x + W(b) <= a.x)
     \/ (a.y + H(a) <= b.y)
     \/ (b.y + H(b) <= a.y))

Contains(a, b) ==
  /\ a.x <= b.x
  /\ a.x + W(a) >= b.x + W(b)
  /\ a.y <= b.y
  /\ a.y + H(a) >= b.y + H(b)

IntersectsContainOnly(a, b) == Contains(a, b) \/ Contains(b, a)

Intersects(a, b) == Overlaps(a, b) \/ Contains(a, b) \/ Contains(b, a)

\* b.clone(): a new BoardPosition built from the EFFECTIVE w and h, at the
\* same position; the constructor's reset() leaves it unrotated
Clone(b) ==
  [NewBoard(b.name, W(b), H(b)) EXCEPT !.x = b.x, !.y = b.y]

(***************************************************************************)
(* Helper functions: area, rotations.                                      *)
(***************************************************************************)
RECURSIVE Area(_)
\* area(*args): the sum of w * h
Area(rects) ==
  IF rects = <<>> THEN 0
  ELSE W(Head(rects)) * H(Head(rects)) + Area(Tail(rects))

\* the value of `flag` when board `index` (0-based) is tested: set to 1
\* before the loop and never changed
Flag(index) == 1

\* `iteration & flag`, for flag a power of two
BitSet(iteration, flag) == (iteration \div flag) % 2 = 1

\* the list `candidate` before it is sorted
Assigned(bs, iteration) ==
  [k \in 1..Len(bs) |->
     IF BitSet(iteration, Flag(k - 1))
     THEN [Clone(bs[k]) EXCEPT !.rotated = TRUE]
     ELSE Clone(bs[k])]

\* insert b behind every element at least as high (stable, descending)
InsertDesc(s, b) ==
  LET n == Cardinality({i \in 1..Len(s) : H(s[i]) >= H(b)})
  IN SubSeq(s, 1, n) \o <<b>> \o SubSeq(s, n + 1, Len(s))

RECURSIVE SortDesc(_)
\* sorted(candidate, cmp = lambda x, y: cmp(x.h, y.h), reverse = True)
SortDesc(s) ==
  IF s = <<>> THEN <<>>
  ELSE InsertDesc(SortDesc(SubSeq(s, 1, Len(s) - 1)), s[Len(s)])

\* the candidate rotations(bs) yields for `iteration`
Rotations(bs, iteration) == SortDesc(Assigned(bs, iteration))

\* how many candidates rotations(bs) yields
RotationCount(bs) == Pow2(Len(bs))

(***************************************************************************)
(* Panel.                                                                  *)
(***************************************************************************)
LockName == "_lock_"

\* Panel.area()
PanelArea(p) == p.w * p.h - Area(p.locked)

RECURSIVE ConsumedW(_)
ConsumedW(bs) ==
  IF bs = <<>> THEN 0
  ELSE LET b == bs[Len(bs)]
           rest == ConsumedW(SubSeq(bs, 1, Len(bs) - 1))
       IN IF b.name # LockName THEN Max(rest, b.x + W(b)) ELSE rest

RECURSIVE ConsumedH(_)
ConsumedH(bs) ==
  IF bs = <<>> THEN 0
  ELSE LET b == bs[Len(bs)]
           rest == ConsumedH(SubSeq(bs, 1, Len(bs) - 1))
       IN IF b.name # LockName THEN Max(rest, b.y + H(b)) ELSE rest

\* Panel.consumed(boards)
Consumed(bs) == ConsumedW(bs) * ConsumedH(bs)

\* Panel.willFit(board)
WillFit(p, b) ==
  IF (W(b) > p.w - 2 * p.padding) /\ (W(b) > p.h - 2 * p.padding) THEN FALSE
  ELSE IF (H(b) > p.w - 2 * p.padding) /\ (H(b) > p.h - 2 * p.padding) THEN FALSE
  ELSE TRUE

\* the inner loop of findPosition: no element of layout intersects b
Safe(layout, b) == \A i \in 1..Len(layout) : ~ Intersects(b, layout[i])

\* range(0, int(self.w - board.w - 1)) holds this many values
XCount(p, b) == p.w - W(b) - 1

\* range(0, int(self.h - board.h - 1)) holds this many values
YCount(p, b) == p.h - H(b) - 1

RECURSIVE Scan(_, _, _, _, _, _)
\* the raster scan of findPosition from (x, y) on, x outer and y inner; b is
\* the board as the last position tested left it
Scan(xn, yn, layout, b, x, y) ==
  IF x >= xn THEN [found |-> FALSE, board |-> b]
  ELSE IF y >= yn THEN Scan(xn, yn, layout, b, x + 1, 0)
  ELSE LET at == [b EXCEPT !.x = x, !.y = y]
       IN IF Safe(layout, at) THEN [found |-> TRUE, board |-> at]
          ELSE Scan(xn, yn, layout, at, x, y + 1)

\* Panel.findPosition(layout, board): its result and the board as it leaves it
FindPosition(p, layout, b) ==
  Scan(XCount(p, b), YCount(p, b), layout, b, 0, 0)

\* `current = list()` in place of list(self.locked)
StartCurrentEmpty(p) == <<>>

\* `current = list(self.locked)`
StartCurrent(p) == p.locked

RECURSIVE PlaceFrom(_, _, _, _)
\* the loop `for board in candidate` from board k on
PlaceFrom(p, cur, cand, k) ==
  IF k > Len(cand) THEN [placed |-> TRUE, current |-> cur, candidate |-> cand]
  ELSE LET r == FindPosition(p, cur, cand[k])
           cand2 == [cand EXCEPT ![k] = r.board]
       IN IF r.found THEN PlaceFrom(p, Append(cur, r.board), cand2, k + 1)
          ELSE [placed |-> FALSE, current |-> cur, candidate |-> cand2]

\* one pass of the body of `for candidate in rotations(boards)` up to the
\* test `if placed`
Attempt(p, bs, iteration) ==
  PlaceFrom(p, StartCurrent(p), Rotations(bs, iteration), 1)

BetterOrEqual(cur, b) == (b = None) \/ (Consumed(cur) <= Consumed(Val(b)))

\* (best is None) or (self.consumed(current) < self.consumed(best))
Better(cur, b) == (b = None) \/ (Consumed(cur) < Consumed(Val(b)))

(***************************************************************************)
(* The inputs of the layout engine.                                        *)
(***************************************************************************)
Names == <<"a", "b", "c", "d", "e">>

PanelSizes == (MaxPanel - 1)..MaxPanel

Dims == 1..MaxDim

\* a locked zone as Panel.__init__ builds it
Lock(x, y, w, h) == [NewBoard(LockName, w, h) EXCEPT !.x = x, !.y = y]

\* the zones a panel w by h may declare: a unit square at the origin, and a
\* zone as large as the panel, at the origin or one step off it (then it
\* leaves the panel)
Zones(w, h) == {Lock(0, 0, 1, 1), Lock(0, 0, w, h), Lock(1, 1, w, h)}

\* Panel.__init__: width, height, the default padding, the locked zones
NewPanel(w, h, l) == [w |-> w, h |-> h, padding |-> 2, locked |-> l]

Panels ==
  UNION {{NewPanel(d[1], d[2], l) : l \in SeqsUpTo(Zones(d[1], d[2]), MaxLocked)} :
           d \in PanelSizes \X {MaxPanel}}

\* the boards of a call: fresh BoardPositions with distinct names
BoardLists ==
  {[k \in 1..Len(d) |-> NewBoard(Names[k], d[k][1], d[k][2])] :
     d \in SeqsUpTo(Dims \X Dims, MaxBoards)}

NoBoard == NewBoard("none", 1, 1)

NoPanel == [w |-> 1, h |-> 1, padding |-> 0, locked |-> <<>>]

BoardIdle ==
  /\ board = NoBoard
  /\ copy = None
  /\ op = "none"
  /\ raised = FALSE
  /\ fits = None
  /\ nops = 0

LayoutIdle ==
  /\ panel = NoPanel
  /\ selfLayout = None
  /\ boards = <<>>
  /\ pc = "idle"
  /\ yielded = 0
  /\ candidate = <<>>
  /\ current = <<>>
  /\ placed = FALSE
  /\ best = None
  /\ rets = <<>>

DrillIdle == drill = [status |-> "idle"]

(***************************************************************************)
(* Panel.layout, one action per pass of its outer loop.                    *)
(***************************************************************************)
LayoutInit ==
  /\ panel \in Panels
  /\ boards \in BoardLists
  /\ selfLayout = None
  /\ pc = "idle"
  /\ yielded = 0
  /\ candidate = <<>>
  /\ current = <<>>
  /\ placed = FALSE
  /\ best = None
  /\ rets = <<>>
  /\ BoardIdle
  /\ DrillIdle

\* what a call gives its caller
Returned(b) == [raised |-> FALSE, success |-> b # None, layout |-> b]

TypeError == [raised |-> TRUE, success |-> FALSE, layout |-> None]

\* panel.layout(*boards) while `layout` is still the method: best = None and
\* the generator rotations(boards) is created
LayoutCall ==
  /\ pc \in {"idle", "returned", "raised"}
  /\ Len(rets) < MaxCalls
  /\ selfLayout = None
  /\ pc' = "loop"
  /\ best' = None
  /\ yielded' = 0
  /\ UNCHANGED <<panel, selfLayout, boards, candidate, current, placed, rets>>
  /\ UNCHANGED <<boardVars, drill>>

\* panel.layout(*boards) after `self.layout = best` has run: the name is the
\* list (or None) in the instance __dict__, and calling it raises TypeError
LayoutCallShadowed ==
  /\ pc \in {"idle", "returned", "raised"}
  /\ Len(rets) < MaxCalls
  /\ selfLayout # None
  /\ pc' = "raised"
  /\ rets' = Append(rets, TypeError)
  /\ UNCHANGED <<panel, selfLayout, boards, yielded, candidate, current, placed, best>>
  /\ UNCHANGED <<boardVars, drill>>

\* one candidate of rotations(boards): place its boards, update `best`
TryCandidate ==
  /\ pc = "loop"
  /\ yielded < RotationCount(boards)
  /\ LET a == Attempt(panel, boards, yielded)
     IN /\ candidate' = a.candidate
        /\ current' = a.current
        /\ placed' = a.placed
        /\ best' = IF a.placed /\ Better(a.current, best) THEN Some(a.current) ELSE best
  /\ yielded' = yielded + 1
  /\ UNCHANGED <<panel, selfLayout, boards, pc, rets>>
  /\ UNCHANGED <<boardVars, drill>>

\* the generator is exhausted: self.layout = best; return self.layout is not None
LayoutReturn ==
  /\ pc = "loop"
  /\ yielded = RotationCount(boards)
  /\ selfLayout' = Some(best)
  /\ rets' = Append(rets, Returned(best))
  /\ pc' = "returned"
  /\ UNCHANGED <<panel, boards, yielded, candidate, current, placed, best>>
  /\ UNCHANGED <<boardVars, drill>>

LayoutNext == LayoutCall \/ LayoutCallShadowed \/ TryCandidate \/ LayoutReturn

SpecLayout == LayoutInit /\ [][LayoutNext]_vars

(***************************************************************************)
(* One BoardPosition and its clone: the operations of the class.           *)
(***************************************************************************)
Positions == 0..MaxPos

\* a BoardPosition in any state its public attributes x, y, rotated allow
BoardStates ==
  {[NewBoard("a", d[1], d[2]) EXCEPT !.x = q[1], !.y = q[2], !.rotated = r] :
     d \in Dims \X Dims, q \in Positions \X Positions, r \in BOOLEAN}

BoardInit ==
  /\ board \in BoardStates
  /\ copy = None
  /\ op = "none"
  /\ raised = FALSE
  /\ fits = None
  /\ nops = 0
  /\ LayoutIdle
  /\ DrillIdle

\* board.reset()
ResetBoard ==
  /\ nops < MaxOps
  /\ board' = Reset(board)
  /\ op' = "reset"
  /\ raised' = FALSE
  /\ nops' = nops + 1
  /\ UNCHANGED <<copy, fits, layoutVars, drill>>

\* copy = board.clone()
CloneBoard ==
  /\ nops < MaxOps
  /\ copy' = Some(Clone(board))
  /\ op' = "clone"
  /\ raised' = FALSE
  /\ nops' = nops + 1
  /\ UNCHANGED <<board, fits, layoutVars, drill>>

\* copy.rotated = v, as rotations() does to a clone
RotateCopy ==
  /\ nops < MaxOps
  /\ copy # None
  /\ \E v \in BOOLEAN : copy' = Some([Val(copy) EXCEPT !.rotated = v])
  /\ op' = "rotateCopy"
  /\ raised' = FALSE
  /\ nops' = nops + 1
  /\ UNCHANGED <<board, fits, layoutVars, drill>>

\* copy.x = x; copy.y = y, as findPosition does to a clone
MoveCopy ==
  /\ nops < MaxOps
  /\ copy # None
  /\ \E q \in Positions \X Positions :
       copy' = Some([Val(copy) EXCEPT !.x = q[1], !.y = q[2]])
  /\ op' = "moveCopy"
  /\ raised' = FALSE
  /\ nops' = nops + 1
  /\ UNCHANGED <<board, fits, layoutVars, drill>>

\* board.w = v: BoardPosition is a classic class, so the assignment stores an
\* instance attribute and the setter that raises is not called
SetW ==
  /\ nops < MaxOps
  /\ \E v \in 1..(MaxDim + 1) : board' = SetAttr(board, "w", v)
  /\ op' = "setw"
  /\ raised' = FALSE
  /\ nops' = nops + 1
  /\ UNCHANGED <<copy, fits, layoutVars, drill>>

\* board.h = v
SetH ==
  /\ nops < MaxOps
  /\ \E v \in 1..(MaxDim + 1) : board' = SetAttr(board, "h", v)
  /\ op' = "seth"
  /\ raised' = FALSE
  /\ nops' = nops + 1
  /\ UNCHANGED <<copy, fits, layoutVars, drill>>

\* board.area(): reads self.width and self.height, which no BoardPosition
\* has, so it raises AttributeError
CallArea ==
  /\ nops < MaxOps
  /\ op' = "area"
  /\ raised' = TRUE
  /\ nops' = nops + 1
  /\ UNCHANGED <<board, copy, fits, layoutVars, drill>>

BoardNext ==
  ResetBoard \/ CloneBoard \/ RotateCopy \/ MoveCopy \/ SetW \/ SetH \/ CallArea

SpecBoard == BoardInit /\ [][BoardNext]_vars

(***************************************************************************)
(* Panel.willFit on one board.                                             *)
(***************************************************************************)
FitPanels ==
  {[NewPanel(d[1], d[2], <<>>) EXCEPT !.padding = pad] :
     d \in (1..MaxPanel) \X (1..MaxPanel), pad \in 0..MaxPadding}

FitInit ==
  /\ panel \in FitPanels
  /\ board \in {NewBoard("a", d[1], d[2]) : d \in Dims \X Dims}
  /\ selfLayout = None
  /\ boards = <<>>
  /\ pc = "idle"
  /\ yielded = 0
  /\ candidate = <<>>
  /\ current = <<>>
  /\ placed = FALSE
  /\ best = None
  /\ rets = <<>>
  /\ copy = None
  /\ op = "none"
  /\ raised = FALSE
  /\ fits = None
  /\ nops = 0
  /\ DrillIdle

\* board.rotated = v
FitRotate ==
  /\ \E v \in BOOLEAN : v # board.rotated /\ board' = [board EXCEPT !.rotated = v]
  /\ op' = "rotate"
  /\ fits' = None
  /\ UNCHANGED <<copy, raised, nops, layoutVars, drill>>

\* fits = panel.willFit(board)
CheckFit ==
  /\ fits = None
  /\ fits' = Some(WillFit(panel, board))
  /\ op' = "willFit"
  /\ UNCHANGED <<board, copy, raised, nops, layoutVars, drill>>

FitNext == FitRotate \/ CheckFit

SpecFit == FitInit /\ [][FitNext]_vars

(***************************************************************************)
(* loadDrillFile.                                                          *)
(* A line is a tuple of one-character strings.  A diameter is a whole      *)
(* number of tenths of a millimetre (the code rounds it to one decimal), a *)
(* scale is in tenths too (254 for 25.4, 10 for 1.0), and a coordinate is  *)
(* the numerator over the denominator 10 * divisor.                        *)
(***************************************************************************)
DigitChars == {"0", "1", "2", "3", "4", "5", "6", "7", "8", "9"}

DigitVal(c) ==
  CASE c = "0" -> 0 [] c = "1" -> 1 [] c = "2" -> 2 [] c = "3" -> 3 [] c = "4" -> 4
    [] c = "5" -> 5 [] c = "6" -> 6 [] c = "7" -> 7 [] c = "8" -> 8 [] c = "9" -> 9

Whitespace == {" ", "\n", "\r", "\t"}

RECURSIVE LStrip(_)
LStrip(l) == IF l # <<>> /\ Head(l) \in Whitespace THEN LStrip(Tail(l)) ELSE l

RECURSIVE RStrip(_)
RStrip(l) ==
  IF l # <<>> /\ l[Len(l)] \in Whitespace THEN RStrip(SubSeq(l, 1, Len(l) - 1)) ELSE l

\* line.strip()
Strip(l) == RStrip(LStrip(l))

\* line.startswith(prefix)
StartsWith(l, prefix) == Len(l) >= Len(prefix) /\ SubSeq(l, 1, Len(prefix)) = prefix

\* line[i:], i counted from 0
From(l, i) == SubSeq(l, i + 1, Len(l))

\* the longest prefix of digits of l
RECURSIVE DigitRun(_)
DigitRun(l) ==
  IF l # <<>> /\ Head(l) \in DigitChars THEN <<Head(l)>> \o DigitRun(Tail(l)) ELSE <<>>

RECURSIVE DigitsValue(_)
\* int(s, 10) of a non-empty string of digits
DigitsValue(l) ==
  IF l = <<>> THEN 0 ELSE 10 * DigitsValue(SubSeq(l, 1, Len(l) - 1)) + DigitVal(l[Len(l)])

RECURSIVE Pow10(_)
Pow10(n) == IF n = 0 THEN 1 ELSE 10 * Pow10(n - 1)

\* float(s) for a string of digits and dots: None when float() raises
\* ValueError, else the number as num / 10^decimals
ParseFloat(l) ==
  LET whole == DigitRun(l)
      rest == From(l, Len(whole))
      frac == IF rest # <<>> /\ Head(rest) = "." THEN DigitRun(Tail(rest)) ELSE <<>>
      used == Len(whole) + (IF rest # <<>> /\ Head(rest) = "." THEN 1 + Len(frac) ELSE 0)
  IN IF used # Len(l) \/ Len(whole) + Len(frac) = 0 THEN None
     ELSE Some([num |-> DigitsValue(whole \o frac), decimals |-> Len(frac)])

\* whether s.split(".") has an element 1
HasDot(l) == \E i \in 1..Len(l) : l[i] = "."

\* len(s.split(".")[1]): the characters between the first dot and the next
DecimalsLen(l) ==
  LET first == CHOOSE i \in 1..Len(l) : l[i] = "." /\ \A j \in 1..(i - 1) : l[j] # "."
      after == From(l, first)
      dots == {i \in 1..Len(after) : after[i] = "."}
  IN IF dots = {} THEN Len(after)
     ELSE (CHOOSE i \in dots : \A j \in dots : i <= j) - 1

ScaleInch == 254

ScaleMetric == 10

\* round(scale * value, 1), in tenths of a millimetre
Diameter(scale, v) == (2 * scale * v.num + Pow10(v.decimals)) \div (2 * Pow10(v.decimals))

MergeLimit == 12

MergedDiameter == 10

\* regex.match(line) for "X([0-9]*)Y([0-9]*)": None, or the two groups
RegexGroups(l) ==
  IF l = <<>> \/ Head(l) # "X" THEN None
  ELSE LET g1 == DigitRun(Tail(l))
           rest == From(l, 1 + Len(g1))
       IN IF rest = <<>> \/ Head(rest) # "Y" THEN None
          ELSE Some(<<g1, DigitRun(Tail(rest))>>)

\* the locals of loadDrillFile before the first line
NewDrill(merge) ==
  [status |-> "reading", error |-> "", lines |-> <<>>, merge |-> merge,
   header |-> TRUE, current |-> None, tools |-> NoAttrs, results |-> NoAttrs,
   divisor |-> None, scale |-> ScaleInch]

Raise(d, e) == [d EXCEPT !.status = "raised", !.error = e]

\* f[k] = v on a dict
Put(f, k, v) == [j \in (DOMAIN f) \cup {k} |-> IF j = k THEN v ELSE f[j]]

\* a tool definition that derives the divisor anew from every tool code
HeaderToolLastDivisor(d, l) ==
  LET code == From(l, 3)
      v == ParseFloat(code)
  IN IF v = None THEN Raise(d, "ValueError")
     ELSE LET d1 == [d EXCEPT !.tools = Put(d.tools, l[2], Diameter(d.scale, Val(v)))]
          IN IF ~ HasDot(code) THEN Raise(d1, "IndexError")
             ELSE LET d2 == [d1 EXCEPT !.divisor = Some(Pow10(DecimalsLen(code)))]
                  IN IF d2.merge /\ d2.tools[l[2]] <= MergeLimit
                     THEN [d2 EXCEPT !.tools = Put(d2.tools, l[2], MergedDiameter)]
                     ELSE d2

\* a header line that starts with "T": a tool definition
HeaderTool(d, l) ==
  LET code == From(l, 3)
      v == ParseFloat(code)
  IN IF v = None THEN Raise(d, "ValueError")
     ELSE LET d1 == [d EXCEPT !.tools = Put(d.tools, l[2], Diameter(d.scale, Val(v)))]
          IN IF d1.divisor = None /\ ~ HasDot(code) THEN Raise(d1, "IndexError")
             ELSE LET d2 == IF d1.divisor = None
                            THEN [d1 EXCEPT !.divisor = Some(Pow10(DecimalsLen(code)))]
                            ELSE d1
                  IN IF d2.merge /\ d2.tools[l[2]] <= MergeLimit
                     THEN [d2 EXCEPT !.tools = Put(d2.tools, l[2], MergedDiameter)]
                     ELSE d2

\* a body line that starts with "T": a tool selection
BodyTool(d, l) ==
  IF Len(l) < 4 THEN Raise(d, "IndexError")
  ELSE IF l[4] \notin DOMAIN d.tools THEN Raise(d, "KeyError")
  ELSE LET cur == d.tools[l[4]]
       IN [d EXCEPT !.current = Some(cur),
                    !.results = IF cur \in DOMAIN d.results THEN d.results
                                ELSE Put(d.results, cur, <<>>)]

\* a coordinate line whose pattern does not match is passed over
BodyCoordSkipping(d, l) ==
  IF d.current = None \/ RegexGroups(l) = None THEN d
  ELSE LET parts == Val(RegexGroups(l))
       IN IF parts[1] = <<>> \/ parts[2] = <<>> THEN Raise(d, "ValueError")
          ELSE LET pt == [x |-> d.scale * DigitsValue(parts[1]),
                          y |-> d.scale * DigitsValue(parts[2]),
                          den |-> 10 * Val(d.divisor)]
               IN [d EXCEPT !.results[Val(d.current)] = Append(@, pt)]

\* a body line that starts with "X": a position
BodyCoord(d, l) ==
  IF d.current = None THEN d
  ELSE IF RegexGroups(l) = None THEN Raise(d, "AttributeError")
  ELSE LET parts == Val(RegexGroups(l))
       IN IF parts[1] = <<>> \/ parts[2] = <<>> THEN Raise(d, "ValueError")
          ELSE LET pt == [x |-> d.scale * DigitsValue(parts[1]),
                          y |-> d.scale * DigitsValue(parts[2]),
                          den |-> 10 * Val(d.divisor)]
               IN [d EXCEPT !.results[Val(d.current)] = Append(@, pt)]

\* the body of `for line in open(filename)` for one line
ProcessLine(d, raw) ==
  LET l == Strip(raw)
      d0 == [d EXCEPT !.lines = Append(@, raw)]
  IN IF d.header
     THEN IF StartsWith(l, <<"T">>) THEN HeaderTool(d0, l)
          ELSE IF StartsWith(l, <<"M", "E", "T", "R", "I", "C">>)
               THEN [d0 EXCEPT !.scale = ScaleMetric]
          ELSE IF StartsWith(l, <<"%">>) THEN [d0 EXCEPT !.header = FALSE]
          ELSE d0
     ELSE IF StartsWith(l, <<"T">>) THEN BodyTool(d0, l)
          ELSE IF StartsWith(l, <<"X">>) THEN BodyCoord(d0, l)
          ELSE d0

\* the lines a drill file is made of
LinePool ==
  { <<"T", "1", "C", "0", ".", "0", "4", "\n">>,
    <<"T", "2", "C", "0", ".", "5", "\n">>,
    <<"M", "E", "T", "R", "I", "C", "\n">>,
    <<"%", "\n">>,
    <<"T", "1", "\n">>,
    <<"T", "0", "0", "1", "\n">>,
    <<"T", "0", "0", "2", "\n">>,
    <<"X", "1", "Y", "2", "\n">>,
    <<"X", "1", "\n">>,
    <<"X", "Y", "\n">> }

DrillInit ==
  /\ drill \in {NewDrill(m) : m \in BOOLEAN}
  /\ LayoutIdle
  /\ BoardIdle

\* the loop reads a header line
ReadHeaderLine ==
  /\ drill.status = "reading"
  /\ drill.header
  /\ Len(drill.lines) < MaxLines
  /\ \E raw \in LinePool : drill' = ProcessLine(drill, raw)
  /\ UNCHANGED <<layoutVars, boardVars>>

\* the loop reads a body line
ReadBodyLine ==
  /\ drill.status = "reading"
  /\ ~ drill.header
  /\ Len(drill.lines) < MaxLines
  /\ \E raw \in LinePool : drill' = ProcessLine(drill, raw)
  /\ UNCHANGED <<layoutVars, boardVars>>

\* the file ends: return results
DrillReturn ==
  /\ drill.status = "reading"
  /\ drill' = [drill EXCEPT !.status = "returned"]
  /\ UNCHANGED <<layoutVars, boardVars>>

DrillNext == ReadHeaderLine \/ ReadBodyLine \/ DrillReturn

SpecDrill == DrillInit /\ [][DrillNext]_vars

(***************************************************************************)
(* Properties of the layout engine.                                        *)
(***************************************************************************)
\* what the last finished call gave its caller
LastRet == rets[Len(rets)]

\* the list the last call recorded in self.layout
Recorded == Val(Val(selfLayout))

\* the unit cells a rectangle covers
Cells(r) == (r.x .. r.x + W(r) - 1) \X (r.y .. r.y + H(r) - 1)

SetMax(S) == CHOOSE m \in S : \A n \in S : n <= m

\* max x+w times max y+h over the items of a layout that are not locked zones
BoundingArea(l) ==
  LET items == {i \in 1..Len(l) : l[i].name # LockName}
  IN SetMax({0} \cup {l[i].x + W(l[i]) : i \in items})
       * SetMax({0} \cup {l[i].y + H(l[i]) : i \in items})

\* the iterations of rotations(boards) whose candidate has every board placed
FullyPlaced ==
  {i \in 0..(RotationCount(boards) - 1) : Attempt(panel, boards, i).placed}

LayoutOf(i) == Attempt(panel, boards, i).current

\* C1: layout reports success exactly when some candidate of the enumerator
\* has every board placed; the layout it records is then a fully placed
\* candidate of smallest consumed area, and of those the first enumerated
C1_SmallestFirstWins ==
  pc = "returned" =>
    /\ LastRet.success <=> (FullyPlaced # {})
    /\ LastRet.success =>
         \E i \in FullyPlaced :
           /\ Recorded = LayoutOf(i)
           /\ \A j \in FullyPlaced :
                \/ BoundingArea(LayoutOf(i)) < BoundingArea(LayoutOf(j))
                \/ BoundingArea(LayoutOf(i)) = BoundingArea(LayoutOf(j)) /\ i <= j

\* a call returned success where two fully placed candidates with different
\* layouts tie on consumed area, and the earlier one was recorded
C1_Witness ==
  /\ pc = "returned"
  /\ LastRet.success
  /\ \E i, j \in FullyPlaced :
       /\ i < j
       /\ BoundingArea(LayoutOf(i)) = BoundingArea(LayoutOf(j))
       /\ LayoutOf(i) # LayoutOf(j)
       /\ Recorded = LayoutOf(i)

\* a second case of C1: a call returned success with a later candidate
\* strictly beating candidate 0
C1_WitnessLater ==
  /\ pc = "returned"
  /\ LastRet.success
  /\ 0 \in FullyPlaced
  /\ BoundingArea(Recorded) < BoundingArea(LayoutOf(0))

\* C2: when layout reports success, no item of the recorded layout shares
\* area with another item or with a locked zone
C2_NoIntersection ==
  (pc = "returned" /\ LastRet.success) =>
    \A i, j \in 1..Len(Recorded) :
      (i # j /\ Recorded[i].name # LockName) =>
        /\ Cells(Recorded[i]) \cap Cells(Recorded[j]) = {}
        /\ ~ Intersects(Recorded[i], Recorded[j])

\* a successful layout holding a locked zone and two items
C2_Witness ==
  /\ pc = "returned"
  /\ LastRet.success
  /\ Len(panel.locked) >= 1
  /\ Len(boards) >= 2
  /\ Len(Recorded) = Len(panel.locked) + Len(boards)

\* bit k of i
Bit(i, k) == (i \div Pow2(k)) % 2 = 1

\* C3: rotations() yields exactly 2^N candidates, and in the candidate for
\* integer i the clone of item k is rotated exactly when bit k of i is set
C3_BitKRotatesItemK ==
  /\ (pc = "returned") => (yielded = Pow2(Len(boards)))
  /\ (pc \in {"loop", "returned"} /\ yielded > 0) =>
       /\ Len(candidate) = Len(boards)
       /\ \A k \in 1..Len(boards) : \A c \in 1..Len(candidate) :
            (candidate[c].name = boards[k].name) =>
              (candidate[c].rotated <=> Bit(yielded - 1, k - 1))

\* every locked zone lies on the panel and no two of them share area
LockedWellFormed(p) ==
  /\ \A i \in 1..Len(p.locked) : Cells(p.locked[i]) \subseteq (0..(p.w - 1)) \X (0..(p.h - 1))
  /\ \A i, j \in 1..Len(p.locked) : i # j => Cells(p.locked[i]) \cap Cells(p.locked[j]) = {}

C10_SecondCallSame ==
  Len(rets) >= 2 => rets[2] = rets[1]

(***************************************************************************)
(* Properties of BoardPosition and Panel.willFit.                          *)
(***************************************************************************)
\* the padded panel, as willFit computes it
UsableW(p) == p.w - 2 * p.padding

UsableH(p) == p.h - 2 * p.padding

\* one of the two orientations of b lies within the padded panel on both axes
SomeOrientationFits(p, b) ==
  \/ b.width <= UsableW(p) /\ b.height <= UsableH(p)
  \/ b.height <= UsableW(p) /\ b.width <= UsableH(p)

\* C4: willFit returns false whenever neither orientation of the item fits
\* within the padded panel on both axes, and true whenever one does
C4_WillFitIffSomeOrientationFits ==
  fits # None => (Val(fits) <=> SomeOrientationFits(panel, board))

\* C6: clone() gives a copy with the intrinsic width and height, the position
\* and the rotation flag of the original, and a later change of the copy
\* leaves the original as it was
C6_CloneFaithful ==
  [][ /\ (op' = "clone") =>
          /\ Val(copy').width = board.width
          /\ Val(copy').height = board.height
          /\ Val(copy').x = board.x
          /\ Val(copy').y = board.y
          /\ Val(copy').rotated = board.rotated
      /\ (op' \in {"rotateCopy", "moveCopy"}) => (board' = board) ]_vars

\* C7: an assignment to an item's w or h raises, and leaves the intrinsic
\* and the effective width and height as they were
C7_SetSizeRaises ==
  [][ (op' \in {"setw", "seth"}) =>
        /\ raised'
        /\ board'.width = board.width
        /\ board'.height = board.height
        /\ W(board') = W(board)
        /\ H(board') = H(board) ]_vars

(***************************************************************************)
(* Properties of loadDrillFile.                                            *)
(***************************************************************************)
\* the lines of the file read so far, stripped
Line(i) == Strip(drill.lines[i])

\* the lines read in the body phase: those behind the first "%" line
BodyLines ==
  {i \in 1..Len(drill.lines) : \E j \in 1..(i - 1) : StartsWith(Line(j), <<"%">>)}

\* the step reads one more line, in the body phase
ReadsBodyLine ==
  /\ drill.status = "reading"
  /\ ~ drill.header
  /\ Len(drill'.lines) = Len(drill.lines) + 1

\* a line that is T and one digit
IsToolSelect(l) == Len(l) = 2 /\ l[1] = "T" /\ l[2] \in DigitChars

\* C8: in the body phase a T<digit> line whose tool the header defined makes
\* that tool's diameter the current diameter, and a T<digit> line whose tool
\* the header did not define raises a decode error
C8_ToolSelect ==
  [][ (ReadsBodyLine /\ IsToolSelect(Strip(drill'.lines[Len(drill'.lines)]))) =>
        LET t == Strip(drill'.lines[Len(drill'.lines)])[2]
        IN IF t \in DOMAIN drill.tools
           THEN drill'.status = "reading" /\ drill'.current = Some(drill.tools[t])
           ELSE drill'.status = "raised" ]_vars

\* the line begins with X, one or more digits, Y, one or more digits
BeginsWithXY(l) ==
  /\ RegexGroups(l) # None
  /\ Val(RegexGroups(l))[1] # <<>>
  /\ Val(RegexGroups(l))[2] # <<>>

\* the body lines that start with X and are no coordinate pair
MalformedBodyLines ==
  {i \in BodyLines : StartsWith(Line(i), <<"X">>) /\ ~ BeginsWithXY(Line(i))}

\* C9 as stated: the decoder never returns a result for a file that holds,
\* in its body, a line starting with X that does not match X<digits>Y<digits>
C9_MalformedNeverReturns ==
  drill.status = "returned" => MalformedBodyLines = {}

\* the body lines read after a tool selection
AfterSelection ==
  {i \in BodyLines : \E j \in BodyLines : j < i /\ StartsWith(Line(j), <<"T">>)}

\* C9 as amended: the decoder never returns a result for a file that holds
\* such a line behind a tool selection of the body
C9_MalformedAfterSelectionNeverReturns ==
  drill.status = "returned" => MalformedBodyLines \cap AfterSelection = {}

\* the decoder raised on a malformed X line read behind a tool selection
C9_Witness ==
  /\ drill.status = "raised"
  /\ Len(drill.lines) \in MalformedBodyLines \cap AfterSelection
  /\ drill.current # None

(***************************************************************************)
(* Properties of Panel.findPosition, read off the candidate last tried.    *)
(***************************************************************************)
\* a candidate has been tried in the running or last call
Tried == pc \in {"loop", "returned"} /\ yielded > 0

\* how many boards of the candidate last tried were placed
PlacedCount == Len(current) - Len(panel.locked)

\* the rectangles already placed when board k of the candidate was positioned
PlacedBefore(k) == panel.locked \o SubSeq(candidate, 1, k - 1)

\* b put at q shares no unit cell with a rectangle of layout
FreeAt(b, q, layout) ==
  \A i \in 1..Len(layout) :
    Cells([b EXCEPT !.x = q[1], !.y = q[2]]) \cap Cells(layout[i]) = {}

\* raster order, x outer and y inner
RasterBefore(q, r) == q[1] < r[1] \/ (q[1] = r[1] /\ q[2] <= r[2])

\* the positions 0 <= x <= xmax, 0 <= y <= ymax at which b is free
FreeIn(b, xmax, ymax, layout) ==
  {q \in (0..xmax) \X (0..ymax) : FreeAt(b, q, layout)}

\* findPosition did, for every board of the candidate, what it must do when
\* the positions to scan are 0 .. w - b.w - dx and 0 .. h - b.h - dy
ScansRange(dx, dy) ==
  Tried =>
    /\ \A k \in 1..PlacedCount :
         LET b == candidate[k]
             free == FreeIn(b, panel.w - W(b) - dx, panel.h - H(b) - dy, PlacedBefore(k))
         IN /\ <<b.x, b.y>> \in free
            /\ \A q \in free : RasterBefore(<<b.x, b.y>>, q)
    /\ ~ placed =>
         LET b == candidate[PlacedCount + 1]
         IN FreeIn(b, panel.w - W(b) - dx, panel.h - H(b) - dy, current) = {}

\* C11: findPosition sets the item to the first position, in raster order
\* with x outer and y inner, within 0 <= x <= panel.width - item.width - 1
\* and 0 <= y <= panel.height - item.height - 1 at which it intersects no
\* rectangle already placed, and reports failure only if no position of that
\* range is free
C11_FirstFreeInRange == ScansRange(1, 1)

\* what the scan does in fact: range(0, n) ends at n - 1, so the last x tried
\* is panel.width - item.width - 2 and the last y panel.height - item.height - 2
FindPositionScansToMinusTwo == ScansRange(2, 2)

(***************************************************************************)
(* Properties of the divisor and the scale of loadDrillFile.               *)
(***************************************************************************)
\* the decoder has not raised
Decoding == drill.status \in {"reading", "returned"}

\* the lines read in the header phase that define a tool
ToolDefs ==
  LET body == BodyLines
  IN {i \in 1..Len(drill.lines) : i \notin body /\ StartsWith(Line(i), <<"T">>)}

FirstToolDef == LET defs == ToolDefs IN CHOOSE i \in defs : \A j \in defs : i <= j

\* the tool code of a tool definition: what follows "T<digit>C"
ToolCode(l) == SubSeq(l, 4, Len(l))

\* the number of characters behind the decimal point of a tool code, none
\* when the code has no decimal point
DigitsAfterPoint(code) ==
  IF \E i \in 1..Len(code) : code[i] = "."
  THEN Len(code) - (CHOOSE i \in 1..Len(code) : code[i] = ".")
  ELSE 0

\* every point decoded so far
Points ==
  UNION {{drill.results[k][i] : i \in 1..Len(drill.results[k])} : k \in DOMAIN drill.results}

\* C12: the divisor is unset until the header defines a tool and from then on
\* it is 10 to the number of digits after the decimal point of the first tool
\* code of the header, whatever tool definitions, METRIC directives and body
\* lines follow, and every coordinate of the body is divided by that divisor
C12_DivisorFromFirstTool ==
  LET defs == ToolDefs
  IN /\ drill.divisor # None =>
          /\ defs # {}
          /\ drill.divisor = Some(Pow10(DigitsAfterPoint(ToolCode(Line(FirstToolDef)))))
     /\ (Decoding /\ defs # {}) => drill.divisor # None
     /\ \A pt \in Points : drill.divisor # None /\ pt.den = 10 * Val(drill.divisor)

\* a file was decoded whose header defines a second tool with another number
\* of decimals, then a METRIC line or not, and whose body holds a coordinate
C12_Witness ==
  /\ drill.status = "returned"
  /\ Points # {}
  /\ ToolDefs # {}
  /\ LET first == DigitsAfterPoint(ToolCode(Line(FirstToolDef)))
     IN \E i \in ToolDefs : DigitsAfterPoint(ToolCode(Line(i))) # first

\* the header lines that hold a METRIC directive
MetricLines ==
  LET body == BodyLines
  IN {i \in 1..Len(drill.lines) :
        /\ i \notin body
        /\ ~ StartsWith(Line(i), <<"T">>)
        /\ StartsWith(Line(i), <<"M", "E", "T", "R", "I", "C">>)}

\* the tool definitions that no later definition of the same tool replaces
LastToolDefs ==
  LET defs == ToolDefs
  IN {i \in defs : \A k \in defs : k > i => Line(k)[2] # Line(i)[2]}

\* the diameter a tool definition yields under a scale factor
DiameterUnder(scale, l) ==
  LET dia == Diameter(scale, Val(ParseFloat(ToolCode(l))))
  IN IF drill.merge /\ dia <= MergeLimit THEN MergedDiameter ELSE dia

\* every tool of the header has the diameter its code yields under the scale
\* factor of the body coordinates
SameScale ==
  \A i \in LastToolDefs : drill.tools[Line(i)[2]] = DiameterUnder(drill.scale, Line(i))

\* C13: once a file is decoded and its body held a coordinate, the scale
\* factor applied to the coordinates is the factor every tool diameter of the
\* header was computed with, whatever the order of the METRIC and the tool
\* definition lines of the header
C13_SameScaleForToolsAndCoordinates ==
  (drill.status = "returned" /\ Points # {}) => SameScale

\* the same for the files whose METRIC lines all precede the tool definitions
SameScaleWhenMetricFirst ==
  (drill.status = "returned" /\ Points # {}
     /\ \A m \in MetricLines : \A i \in ToolDefs : m < i) => SameScale

=============================================================================
